---- MODULE Spec2Model ----
(***************************************************************************)
(* The delegator example: a Delegator contract (my_contracts/delegator)    *)
(* forwards `change` to one of two delegate contracts and `get` to an      *)
(* accumulator; the Adder contract (my_contracts/delegator/adder) forwards *)
(* `inc` to the accumulator.  Every remote call is built with build_call   *)
(* and issued with try_invoke, whose result is dropped.                    *)
(*                                                                         *)
(* A message runs as one transaction of the host: an action of this module *)
(* is one whole message, nested calls included.                            *)
(***************************************************************************)
EXTENDS Integers, Sequences, FiniteSets, TLC

(***************************************************************************)
(* Bounds of the model.                                                    *)
(***************************************************************************)
\* Messages sent to the Delegator in a behaviour of Spec.
MaxOps == 2
\* Messages sent to the Delegator in a behaviour of SpecScenario.
MaxScenarioOps == 4

\* The accounts of the ledger.  AccountId is an opaque 32-byte value in the
\* source; three of them are enough to tell the three stored addresses apart.
AccountId == {"a1", "a2", "a3"}

\* No Adder is deployed at an account.
NoAdder == "none"

I32_MAX == 2147483647
I32_MIN == (-2147483647) - 1

\* Arguments the messages are called with.
EdgeArgs == {0, 1, -1, I32_MIN, I32_MAX}
ScenarioArgs == {10, -3}
ChangeArgs == {5, I32_MIN}
IncArgs == {5}

(***************************************************************************)
(* Call building: selectors, argument encoding, the call request.          *)
(***************************************************************************)
\* let method_selector = [0xC0, 0xDE, 0xCA, 0xF1];
GET_SELECTOR == <<192, 222, 202, 241>>
\* Mutant: change uses the get selector.
INC_SELECTOR_typo == <<192, 222, 202, 241>>

\* let method_selector = [0xC0, 0xDE, 0xCA, 0xFE];
INC_SELECTOR == <<192, 222, 202, 254>>
\* Adder::inc: let method_selector = [0xC0, 0xDE, 0xCA, 0xFE];
ADDER_CALL_SELECTOR == <<192, 222, 202, 254>>
\* #[ink(message, selector = 0xC0DECAFE)]
ADDER_INC_SELECTOR == <<192, 222, 202, 254>>

\* Mutant: the caller's own input is forwarded.
CallFlagsForwardInput == {"FORWARD_INPUT"}

\* CallFlags::default(): no flag set.
CallFlagsDefault == {}

\* returns::<()>()
ReturnsUnit == "()"

\* Byte i (0 = least significant) of a natural number below 2^31.
ByteOf(n, i) == (n \div (256 ^ i)) % 256

\* Mutant: the bytes are written most significant first.
encode_i32_big_endian(x) ==
    IF x >= 0
    THEN [i \in 1..4 |-> ByteOf(x, 4 - i)]
    ELSE [i \in 1..4 |-> 255 - ByteOf(-(x + 1), 4 - i)]

\* push_arg(by) for by: i32: the SCALE encoding of an i32, its four bytes in
\* two's complement, least significant first.  A negative x is the bitwise
\* complement of -(x+1).
encode_i32(x) ==
    IF x >= 0
    THEN [i \in 1..4 |-> ByteOf(x, i - 1)]
    ELSE [i \in 1..4 |-> 255 - ByteOf(-(x + 1), i - 1)]

\* Decoding of an i32 argument by the callee's dispatch.
decode_i32(b) ==
    IF b[4] < 128
    THEN b[1] + 256 * b[2] + 65536 * b[3] + 16777216 * b[4]
    ELSE -((255 - b[1]) + 256 * (255 - b[2]) + 65536 * (255 - b[3])
            + 16777216 * (255 - b[4])) - 1

\* ExecutionInput::new(selector) followed by the pushed arguments.
ExecutionInput(selector, args) == selector \o args

\* build_call().call(callee).call_flags(flags).exec_input(input).returns::<R>()
build_call(callee, flags, input, returns) ==
    [callee |-> callee, call_flags |-> flags, exec_input |-> input, returns |-> returns]

\* What the host does with a call to an account within one transaction:
\* the callee does not run (unknown target, unknown selector, no gas left),
\* it runs and fails, or it runs and returns.
Fate == {"NotDelivered", "Trapped", "Returned"}

VARIABLES
    delegator,  \* the Delegator's storage: which, acc_contract, add_contract, sub_contract
    adders,     \* per account: acc_contract of the Adder deployed there, or NoAdder
    ctor,       \* the arguments Delegator::new was called with
    ops,        \* the messages sent to the Delegator so far, in order
    sent,       \* the calls the Delegator has issued so far, in order
    trail,      \* the Delegator's storage at construction and after each message
    msg,        \* the last message sent to any contract, with its arguments
    trace,      \* the calls of the last transaction, in order, with their outcome
    outcome     \* what the last message returned to its caller

vars == <<delegator, adders, ctor, ops, sent, trail, msg, trace, outcome>>

(***************************************************************************)
(* The host: try_invoke.                                                   *)
(***************************************************************************)
\* The selector and the argument bytes of a payload.
SelectorOf(input) == SubSeq(input, 1, 4)
ArgsOf(input) == SubSeq(input, 5, Len(input))

\* The callee is an Adder that is not already running (a call with default
\* flags may not re-enter a running contract) and the payload names its inc
\* message with one i32 argument.
RoutesToInc(req, stack) ==
    /\ adders[req.callee] # NoAdder
    /\ req.callee \notin stack
    /\ SelectorOf(req.exec_input) = ADDER_INC_SELECTOR
    /\ Len(ArgsOf(req.exec_input)) = 4

\* Whether the callee's code runs.
Delivered(req, fate, stack) ==
    /\ fate[req.callee] # "NotDelivered"
    /\ adders[req.callee] # NoAdder => RoutesToInc(req, stack)

\* The Result try_invoke hands back to the caller.
ResultOf(req, fate, stack) ==
    IF Delivered(req, fate, stack) /\ fate[req.callee] = "Returned" THEN "Ok" ELSE "Err"

\* The record of one call.
Event(caller, req, fate, stack) ==
    [caller |-> caller, callee |-> req.callee, call_flags |-> req.call_flags,
     exec_input |-> req.exec_input, returns |-> req.returns,
     delivered |-> Delivered(req, fate, stack),
     result |-> ResultOf(req, fate, stack)]

RECURSIVE try_invoke(_, _, _, _)
RECURSIVE Adder_inc(_, _, _, _)

\* Mutant: inc issues its call twice.
Adder_inc_twice(self, by, fate, stack) ==
    LET req == build_call(adders[self], CallFlagsDefault,
                          ExecutionInput(ADDER_CALL_SELECTOR, encode_i32(by)), ReturnsUnit)
    IN  try_invoke(self, req, fate, stack \cup {self})
            \o try_invoke(self, req, fate, stack \cup {self})

\* Mutant: inc calls the account it runs at instead of the stored accumulator.
Adder_inc_calls_self(self, by, fate, stack) ==
    LET req == build_call(self, CallFlagsDefault,
                          ExecutionInput(ADDER_CALL_SELECTOR, encode_i32(by)), ReturnsUnit)
    IN  try_invoke(self, req, fate, stack \cup {self})

\* Mutant: the callee runs only when the call is going to succeed.
try_invoke_blocks(caller, req, fate, stack) ==
    <<Event(caller, req, fate, stack)>> \o
        (IF ResultOf(req, fate, stack) = "Ok" /\ RoutesToInc(req, stack)
         THEN Adder_inc(req.callee, decode_i32(ArgsOf(req.exec_input)), fate, stack)
         ELSE <<>>)

\* Adder::inc(&mut self, by) of the Adder at account self: the calls it causes.
Adder_inc(self, by, fate, stack) ==
    LET method_selector == ADDER_CALL_SELECTOR
        req == build_call(adders[self], CallFlagsDefault,
                          ExecutionInput(method_selector, encode_i32(by)), ReturnsUnit)
    IN  try_invoke(self, req, fate, stack \cup {self})

\* try_invoke(): the call is recorded; a delivered call to an Adder runs its inc.
try_invoke(caller, req, fate, stack) ==
    <<Event(caller, req, fate, stack)>> \o
        (IF Delivered(req, fate, stack) /\ RoutesToInc(req, stack)
         THEN Adder_inc(req.callee, decode_i32(ArgsOf(req.exec_input)), fate, stack)
         ELSE <<>>)

(***************************************************************************)
(* The Delegator.                                                          *)
(***************************************************************************)
\* Mutant: the delegate addresses are stored the wrong way round.
Delegator_new_swapped(acc_contract, add_contract, sub_contract) ==
    [which |-> "Adder", acc_contract |-> acc_contract,
     add_contract |-> sub_contract, sub_contract |-> add_contract]

\* Mutant: the initial selection is Subber.
Delegator_new_subber(acc_contract, add_contract, sub_contract) ==
    [which |-> "Subber", acc_contract |-> acc_contract,
     add_contract |-> add_contract, sub_contract |-> sub_contract]

\* Delegator::new
Delegator_new(acc_contract, add_contract, sub_contract) ==
    [which |-> "Adder", acc_contract |-> acc_contract,
     add_contract |-> add_contract, sub_contract |-> sub_contract]

\* Adder::new
Adder_new(acc_contract) == acc_contract

\* Mutant: get goes to the selected delegate.
get_call_to_selected(self) ==
    build_call(IF self.which = "Adder" THEN self.add_contract ELSE self.sub_contract,
               CallFlagsDefault, ExecutionInput(GET_SELECTOR, <<>>), ReturnsUnit)

\* The call Delegator::get builds.
get_call(self) ==
    LET method_selector == GET_SELECTOR
    IN  build_call(self.acc_contract, CallFlagsDefault,
                   ExecutionInput(method_selector, <<>>), ReturnsUnit)

\* Mutant: change goes straight to the accumulator.
change_contract_accumulator(self) == self.acc_contract

\* Mutant: the selection is ignored.
change_contract_ignores_which(self) == self.add_contract

\* The contract Delegator::change selects.
change_contract(self) ==
    IF self.which = "Adder" THEN self.add_contract ELSE self.sub_contract

\* Mutant: the arms of the match are the wrong way round.
change_call_crossed(self, by) ==
    build_call(IF self.which = "Adder" THEN self.sub_contract ELSE self.add_contract,
               CallFlagsDefault, ExecutionInput(INC_SELECTOR, encode_i32(by)), ReturnsUnit)

\* The call Delegator::change builds.
change_call(self, by) ==
    LET method_selector == INC_SELECTOR
    IN  build_call(change_contract(self), CallFlagsDefault,
                   ExecutionInput(method_selector, encode_i32(by)), ReturnsUnit)

\* Mutant: the Subber arm does not go back to Adder.
switch_which_sticks(self) == [self EXCEPT !.which = "Subber"]

\* Mutant: switching also overwrites the adder's address.
switch_which_clobbers(self) ==
    [self EXCEPT !.which = IF self.which = "Adder" THEN "Subber" ELSE "Adder",
                 !.add_contract = self.sub_contract]

\* The storage Delegator::switch leaves.
switch_which(self) ==
    IF self.which = "Adder"
    THEN [self EXCEPT !.which = "Subber"]
    ELSE [self EXCEPT !.which = "Adder"]

\* Mutant: the Result of the remote call is handed on to the caller.
message_return_propagates(result) == result

\* What a message hands back to its caller: `let _result = ...` drops the
\* Result of try_invoke, and the message returns ().
message_return(result) == "Ok"

\* The part of an event the caller chose.
RequestOf(e) ==
    [callee |-> e.callee, call_flags |-> e.call_flags,
     exec_input |-> e.exec_input, returns |-> e.returns]

\* Mutant: a failed call is tried again.
Delegator_get_retries(fate) ==
    LET t == try_invoke("delegator", get_call(delegator), fate, {})
        again == IF t[1].result = "Err" THEN t ELSE <<>>
    IN  /\ UNCHANGED <<delegator, adders, ctor>>
        /\ trace' = t \o again
        /\ sent' = Append(sent, RequestOf(t[1]))
        /\ outcome' = message_return(t[1].result)
        /\ msg' = <<"get">>
        /\ ops' = Append(ops, msg')
        /\ trail' = Append(trail, delegator')

\* Delegator::get(&self)
Delegator_get(fate) ==
    LET t == try_invoke("delegator", get_call(delegator), fate, {})
    IN  /\ UNCHANGED <<delegator, adders, ctor>>
        /\ trace' = t
        /\ sent' = Append(sent, RequestOf(t[1]))
        /\ outcome' = message_return(t[1].result)
        /\ msg' = <<"get">>
        /\ ops' = Append(ops, msg')
        /\ trail' = Append(trail, delegator')

\* Mutant: after a failed call the Delegator fails over to the other delegate.
Delegator_change_fails_over(by, fate) ==
    LET t == try_invoke("delegator", change_call(delegator, by), fate, {})
    IN  /\ delegator' = IF t[1].result = "Err" THEN switch_which(delegator) ELSE delegator
        /\ UNCHANGED <<adders, ctor>>
        /\ trace' = t
        /\ sent' = Append(sent, RequestOf(t[1]))
        /\ outcome' = message_return(t[1].result)
        /\ msg' = <<"change", by>>
        /\ ops' = Append(ops, msg')
        /\ trail' = Append(trail, delegator')

\* Mutant: a switch takes effect while change runs, after its read of `which`.
Delegator_change_interleaved(by, fate) ==
    LET t == try_invoke("delegator", change_call(delegator, by), fate, {})
    IN  /\ delegator' = switch_which(delegator)
        /\ UNCHANGED <<adders, ctor>>
        /\ trace' = t
        /\ sent' = Append(sent, RequestOf(t[1]))
        /\ outcome' = message_return(t[1].result)
        /\ msg' = <<"change", by>>
        /\ ops' = Append(ops, msg')
        /\ trail' = Append(trail, delegator')

\* Delegator::change(&self, by)
Delegator_change(by, fate) ==
    LET t == try_invoke("delegator", change_call(delegator, by), fate, {})
    IN  /\ UNCHANGED <<delegator, adders, ctor>>
        /\ trace' = t
        /\ sent' = Append(sent, RequestOf(t[1]))
        /\ outcome' = message_return(t[1].result)
        /\ msg' = <<"change", by>>
        /\ ops' = Append(ops, msg')
        /\ trail' = Append(trail, delegator')

\* Mutant: switching tells the newly selected delegate.
Delegator_switch_notifies ==
    LET d == switch_which(delegator)
        t == try_invoke("delegator", change_call(d, 0),
                        [a \in AccountId |-> "NotDelivered"], {})
    IN  /\ delegator' = d
        /\ trace' = t
        /\ outcome' = "Ok"
        /\ msg' = <<"switch">>
        /\ ops' = Append(ops, msg')
        /\ trail' = Append(trail, delegator')
        /\ sent' = Append(sent, RequestOf(t[1]))
        /\ UNCHANGED <<adders, ctor>>

\* Delegator::switch(&mut self)
Delegator_switch ==
    /\ delegator' = switch_which(delegator)
    /\ trace' = <<>>
    /\ outcome' = "Ok"
    /\ msg' = <<"switch">>
    /\ ops' = Append(ops, msg')
    /\ trail' = Append(trail, delegator')
    /\ UNCHANGED <<adders, ctor, sent>>

\* Adder::inc called directly on the Adder at account a.
Inc(a, by, fate) ==
    /\ adders[a] # NoAdder
    /\ msg' = <<"inc", a, by>>
    /\ LET t == Adder_inc(a, by, fate, {})
       IN  /\ trace' = t
           /\ outcome' = message_return(t[1].result)
    /\ UNCHANGED <<delegator, adders, ctor, ops, sent, trail>>

(***************************************************************************)
(* Deployments and specifications.                                         *)
(***************************************************************************)
\* The ledgers with at most two Adders (the adder and the subber delegate),
\* each constructed with any account as its accumulator.
Ledgers ==
    {l \in [AccountId -> AccountId \cup {NoAdder}] :
        Cardinality({a \in AccountId : l[a] # NoAdder}) <= 2}

Deployed(acc, add, sub, ledger) ==
    /\ ctor = <<acc, add, sub>>
    /\ delegator = Delegator_new(acc, add, sub)
    /\ adders = [a \in AccountId |->
                    IF ledger[a] = NoAdder THEN NoAdder ELSE Adder_new(ledger[a])]
    /\ ops = <<>>
    /\ sent = <<>>
    /\ trail = <<delegator>>
    /\ msg = <<"new">>
    /\ trace = <<>>
    /\ outcome = "Ok"

\* The accounts a call to account a can reach: a, and the accumulators of the
\* Adders reached.
RECURSIVE Reach(_)
Reach(S) ==
    LET T == S \cup {adders[x] : x \in {y \in S : adders[y] # NoAdder}}
    IN  IF T = S THEN S ELSE Reach(T)

\* The host's choices in a transaction whose first call goes to account a.
Fates(a) == [Reach({a}) -> Fate]

\* The argument triples of Delegator::new up to a renaming of the accounts
\* (accounts are only stored, compared and called): one triple for each way
\* the three addresses can be equal to one another.
CtorArgs ==
    {<<"a1", "a1", "a1">>, <<"a1", "a1", "a2">>, <<"a1", "a2", "a1">>,
     <<"a1", "a2", "a2">>, <<"a1", "a2", "a3">>}

\* Any deployment.
Init ==
    \E args \in CtorArgs, ledger \in Ledgers :
        Deployed(args[1], args[2], args[3], ledger)

Switch == Len(ops) < MaxOps /\ Delegator_switch
Get ==
    Len(ops) < MaxOps /\ \E fate \in Fates(get_call(delegator).callee) : Delegator_get(fate)
Change ==
    Len(ops) < MaxOps /\ \E by \in ChangeArgs : \E fate \in Fates(change_call(delegator, by).callee) :
                            Delegator_change(by, fate)
IncDirect == \E a \in AccountId, by \in IncArgs : \E fate \in Fates(a) : Inc(a, by, fate)

Next == Switch \/ Get \/ Change \/ IncDirect

Spec == Init /\ [][Next]_vars

\* The end-to-end deployment: accumulator a1, adder delegate a2 and subber
\* delegate a3 both constructed with a1, Delegator constructed with (a1, a2, a3).
ScenarioLedger == [a \in AccountId |-> IF a = "a1" THEN NoAdder ELSE "a1"]

InitScenario == Deployed("a1", "a2", "a3", ScenarioLedger)

ScenarioSwitch == Len(ops) < MaxScenarioOps /\ Delegator_switch
ScenarioGet ==
    Len(ops) < MaxScenarioOps /\ \E fate \in Fates(get_call(delegator).callee) : Delegator_get(fate)
ScenarioChange ==
    Len(ops) < MaxScenarioOps
        /\ \E by \in ScenarioArgs : \E fate \in Fates(change_call(delegator, by).callee) :
               Delegator_change(by, fate)
ScenarioInc == \E a \in AccountId, by \in EdgeArgs : \E fate \in Fates(a) : Inc(a, by, fate)

NextScenario == ScenarioSwitch \/ ScenarioGet \/ ScenarioChange \/ ScenarioInc

SpecScenario == InitScenario /\ [][NextScenario]_vars

(***************************************************************************)
(* Properties.                                                             *)
(***************************************************************************)
\* The i32 whose little-endian two's complement bytes are b.
LeI32(b) ==
    b[1] + 256 * b[2] + 65536 * b[3]
        + 16777216 * (IF b[4] >= 128 THEN b[4] - 256 ELSE b[4])

\* p is the four selector bytes sel followed by the four bytes of x and nothing else.
IsIncPayload(p, sel, x) ==
    /\ Len(p) = 8
    /\ SubSeq(p, 1, 4) = sel
    /\ \A i \in 5..8 : p[i] \in 0..255
    /\ LeI32(SubSeq(p, 5, 8)) = x

\* The last message was sent to the Delegator.
LastIsOp(name) == Len(ops) > 0 /\ ops[Len(ops)][1] = name /\ msg = ops[Len(ops)]

\* The Delegator's storage before its last message, and the call that message issued.
Before == trail[Len(ops)]
LastSent == sent[Len(sent)]

\* C1: change(x) dispatches to add_contract when `which` is Adder and to
\* sub_contract when `which` is Subber, in both cases with the payload
\* 0xC0,0xDE,0xCA,0xFE followed by the encoding of the unmodified x.
C1_TargetSelection ==
    LastIsOp("change") =>
        /\ Before.which = "Adder" => LastSent.callee = Before.add_contract
        /\ Before.which = "Subber" => LastSent.callee = Before.sub_contract
        /\ IsIncPayload(LastSent.exec_input, <<192, 222, 202, 254>>, msg[2])
        /\ RequestOf(trace[1]) = LastSent

C1_Witness ==
    /\ LastIsOp("change")
    /\ Before.which = "Subber"
    /\ Before.add_contract # Before.sub_contract
    /\ LastSent.callee = Before.sub_contract
    /\ msg[2] = I32_MIN
    /\ LastSent.exec_input = <<192, 222, 202, 254, 0, 0, 0, 128>>

\* C2: when every remote call of a transaction reports failure, inc, change
\* and get still return normally to their caller and leave the stored state
\* of the Delegator and of every Adder as it was.
C2_NonPropagation ==
    [][(trace' # <<>> /\ \A i \in 1..Len(trace') : trace'[i].result = "Err")
          => (outcome' = "Ok" /\ delegator' = delegator /\ adders' = adders)]_vars

C2_Witness ==
    /\ msg = <<"change", 5>>
    /\ Len(trace) = 2
    /\ \A i \in 1..Len(trace) : trace[i].result = "Err"
    /\ outcome = "Ok"
    /\ delegator = Before

\* C3: a freshly constructed Delegator has which = Adder and stores the three
\* constructor arguments unchanged, also when some of them are equal.
C3_FreshDelegator ==
    ops = <<>> =>
        delegator = [which |-> "Adder", acc_contract |-> ctor[1],
                     add_contract |-> ctor[2], sub_contract |-> ctor[3]]

C3_Witness ==
    /\ ops = <<>>
    /\ ctor[1] = ctor[2] /\ ctor[2] # ctor[3]
    /\ delegator.which = "Adder"
    /\ delegator.acc_contract = ctor[1]
    /\ delegator.sub_contract = ctor[3]

\* Messages i..j-1 of the Delegator's history are all switch().
AllSwitch(i, j) == \A k \in i..(j - 1) : ops[k][1] = "switch"

\* The other selection.
Other(w) == IF w = "Adder" THEN "Subber" ELSE "Adder"

\* C4: one switch() changes `which` to the other value, two consecutive
\* switch() calls return it to its prior value, and an even number of
\* consecutive switch() calls leaves the Delegator's storage as it was.
C4_ToggleInvolution ==
    \A i \in 1..Len(trail) : \A j \in i..Len(trail) :
        AllSwitch(i, j) =>
            /\ trail[j].which \in {"Adder", "Subber"}
            /\ (j - i) % 2 = 0 => trail[j] = trail[i]
            /\ (j - i) % 2 = 1 => trail[j] = [trail[i] EXCEPT !.which = Other(trail[i].which)]

C4_Witness ==
    /\ Len(ops) = 4
    /\ AllSwitch(1, 5)
    /\ trail[2].which = "Subber" /\ trail[3].which = "Adder"
    /\ trail[4].which = "Subber" /\ trail[5] = trail[1]
    /\ delegator = trail[5]

\* C5: acc_contract, add_contract and sub_contract keep their constructor
\* values through every get(), change(x) and switch(), and get() and
\* change(x) leave `which` as it was.
C5_OnlySwitchMutates ==
    /\ delegator = trail[Len(trail)]
    /\ \A k \in 1..Len(trail) :
          /\ trail[k].acc_contract = ctor[1]
          /\ trail[k].add_contract = ctor[2]
          /\ trail[k].sub_contract = ctor[3]
    /\ \A i \in 1..Len(ops) :
          ops[i][1] \in {"get", "change"} => trail[i + 1].which = trail[i].which

C5_Witness ==
    /\ Len(ops) = 4
    /\ ops[1] = <<"switch">> /\ ops[2][1] = "change" /\ ops[3] = <<"get">> /\ ops[4][1] = "change"
    /\ delegator = [which |-> "Subber", acc_contract |-> ctor[1],
                    add_contract |-> ctor[2], sub_contract |-> ctor[3]]
    /\ trail[3].which = "Subber" /\ trail[4].which = "Subber"

\* The number of switch() calls among the first n messages.
RECURSIVE SwitchesBefore(_)
SwitchesBefore(n) ==
    IF n = 0 THEN 0
    ELSE SwitchesBefore(n - 1) + (IF ops[n][1] = "switch" THEN 1 ELSE 0)

\* The number of get() and change() calls among the first n messages.
DispatchesUpTo(n) == n - SwitchesBefore(n)

\* The call message i of the history is expected to issue.
ExpectedCallee(i) ==
    IF ops[i][1] = "get" THEN ctor[1]
    ELSE IF SwitchesBefore(i) % 2 = 0 THEN ctor[2] ELSE ctor[3]

\* C6: the i-th get()/change(x) call produces the i-th recorded dispatch:
\* a change goes to the adder delegate after an even number of switches and
\* to the subber delegate after an odd number, with the payload encoding x;
\* a get goes to the accumulator with the get selector and no argument.
C6_EndToEndOrdering ==
    /\ Len(sent) = DispatchesUpTo(Len(ops))
    /\ \A i \in 1..Len(ops) :
          ops[i][1] # "switch" =>
              LET d == sent[DispatchesUpTo(i)]
              IN  /\ d.callee = ExpectedCallee(i)
                  /\ ops[i][1] = "change" =>
                        IsIncPayload(d.exec_input, <<192, 222, 202, 254>>, ops[i][2])
                  /\ ops[i][1] = "get" => d.exec_input = <<192, 222, 202, 241>>

C6_Witness ==
    /\ ops = << <<"change", 10>>, <<"switch">>, <<"change", -3>>, <<"get">> >>
    /\ Len(sent) = 3
    /\ sent[1].callee = "a2"
    /\ sent[1].exec_input = <<192, 222, 202, 254, 10, 0, 0, 0>>
    /\ sent[2].callee = "a3"
    /\ sent[2].exec_input = <<192, 222, 202, 254, 253, 255, 255, 255>>
    /\ sent[3].callee = "a1"
    /\ sent[3].exec_input = <<192, 222, 202, 241>>

\* The argument of the inc a call of the last transaction carries on.
LastArg == IF msg[1] = "inc" THEN msg[3] ELSE msg[2]

\* The encodings of the edge values, byte by byte.
EdgeBytes(x) ==
    CASE x = 0 -> <<0, 0, 0, 0>>
      [] x = 1 -> <<1, 0, 0, 0>>
      [] x = -1 -> <<255, 255, 255, 255>>
      [] x = I32_MIN -> <<0, 0, 0, 128>>
      [] x = I32_MAX -> <<255, 255, 255, 127>>

\* C7: the payload of every call issued by a delegate's inc(by) is the four
\* bytes 0xC0,0xDE,0xCA,0xFE followed by the four little-endian two's
\* complement bytes of by and nothing else; for 0, 1, -1, i32::MIN and
\* i32::MAX these are the bytes written out above.
C7_PayloadEncoding ==
    msg[1] \in {"inc", "change"} =>
        \A i \in 1..Len(trace) :
            trace[i].caller \in AccountId =>
                /\ IsIncPayload(trace[i].exec_input, <<192, 222, 202, 254>>, LastArg)
                /\ LastArg \in EdgeArgs =>
                      SubSeq(trace[i].exec_input, 5, 8) = EdgeBytes(LastArg)

C7_Witness ==
    /\ msg = <<"inc", "a2", I32_MIN>>
    /\ Len(trace) = 1
    /\ trace[1].caller = "a2"
    /\ trace[1].exec_input = <<192, 222, 202, 254, 0, 0, 0, 128>>

\* C8: get() dispatches to the stored accumulator address, whatever `which`
\* is, the four bytes 0xC0,0xDE,0xCA,0xF1 with no argument bytes, and hands
\* nothing of the remote result to its caller.
C8_GetDispatch ==
    LastIsOp("get") =>
        /\ LastSent.callee = Before.acc_contract
        /\ LastSent.callee = ctor[1]
        /\ LastSent.exec_input = <<192, 222, 202, 241>>
        /\ RequestOf(trace[1]) = LastSent
        /\ Len(trace) = 1
        /\ outcome = "Ok"

C8_Witness ==
    /\ LastIsOp("get")
    /\ Before.which = "Subber"
    /\ Cardinality({ctor[1], ctor[2], ctor[3]}) = 3
    /\ LastSent.callee = ctor[1]
    /\ trace[1].result = "Ok"
    /\ outcome = "Ok"

\* The calls of the last transaction issued by account a.
CallsBy(a) == {i \in 1..Len(trace) : trace[i].caller = a}

\* The last message was change(x) and its dispatch ran the inc of a deployed delegate.
ChangeReachedDelegate ==
    /\ msg[1] = "change"
    /\ trace[1].delivered
    /\ adders[trace[1].callee] # NoAdder

\* C9: when the dispatch of change(x) is delivered to the selected delegate,
\* that delegate's inc issues exactly one call, to its accumulator's address,
\* with the increment selector and the same argument x.
C9_TwoHopDelegation ==
    ChangeReachedDelegate =>
        /\ trace[1].callee = change_contract(Before)
        /\ Cardinality(CallsBy(trace[1].callee)) = 1
        /\ Len(trace) >= 2
        /\ trace[2].caller = trace[1].callee
        /\ trace[2].callee = adders[trace[1].callee]
        /\ IsIncPayload(trace[2].exec_input, <<192, 222, 202, 254>>, msg[2])

C9_Witness ==
    /\ ChangeReachedDelegate
    /\ msg[2] = I32_MIN
    /\ Before.which = "Subber"
    /\ Len(trace) = 2
    /\ trace[2].caller = delegator.sub_contract
    /\ trace[2].callee # delegator.acc_contract
    /\ trace[2].result = "Ok"

\* C10 as stated: every change call is followed by a dispatch of the
\* delegate to the accumulator, whether or not the Delegator's dispatch to
\* the delegate succeeded.
C10_Original ==
    msg[1] = "change" => CallsBy(trace[1].callee) \ {1} # {}

\* C10 as amended: change completes normally in every case, and the
\* delegate's dispatch is attempted exactly for the change calls whose
\* dispatch reaches a deployed delegate and runs its inc, whatever result
\* that hop reports; a dispatch that is not delivered is followed by no
\* delegate dispatch.
C10_NoHopBlocks ==
    msg[1] = "change" =>
        /\ outcome = "Ok"
        /\ (CallsBy(trace[1].callee) \ {1} # {})
              <=> (trace[1].delivered /\ adders[trace[1].callee] # NoAdder)

C10_Witness ==
    /\ ChangeReachedDelegate
    /\ trace[1].result = "Err"
    /\ Len(trace) = 2
    /\ trace[2].caller = trace[1].callee
    /\ trace[2].result = "Ok"
    /\ outcome = "Ok"

\* C11: each inc, get and change issues exactly one dispatch attempt and
\* then completes, whether the attempt succeeds or fails: every contract
\* that ran in the transaction issued one call, the Delegator recorded one
\* call per get/change, and the message has returned.
C11_SingleAttempt ==
    msg[1] \in {"inc", "get", "change"} =>
        /\ Len(trace) >= 1
        /\ trace[1].caller = (IF msg[1] = "inc" THEN msg[2] ELSE "delegator")
        /\ \A i \in 1..Len(trace) : CallsBy(trace[i].caller) = {i}
        /\ msg[1] # "inc" => Len(trace) = 1 \/ trace[1].delivered
        /\ Len(sent) = DispatchesUpTo(Len(ops))
        /\ outcome = "Ok"

C11_Witness ==
    /\ LastIsOp("get")
    /\ Len(ops) = 2 /\ ops[1] = <<"get">>
    /\ Len(trace) = 1
    /\ trace[1].result = "Err"
    /\ Len(sent) = 2
    /\ outcome = "Ok"

\* C12: switch() issues no dispatch, has no failure outcome in either
\* selection, and changes no field of the Delegator other than `which`.
C12_SwitchIsLocal ==
    LastIsOp("switch") =>
        /\ trace = <<>>
        /\ Len(sent) = DispatchesUpTo(Len(ops) - 1)
        /\ outcome = "Ok"
        /\ delegator = [Before EXCEPT !.which = Other(Before.which)]

C12_Witness ==
    /\ LastIsOp("switch")
    /\ Len(ops) = 2 /\ ops[1][1] = "change"
    /\ Before.which = "Adder"
    /\ delegator.which = "Subber"
    /\ Len(sent) = 1
    /\ trace = <<>>

\* C13: inc(by) dispatches only to the accumulator address the Adder was
\* constructed with, no step changes the address an Adder stores, and inc
\* hands no value back to its invoker.
C13_IncFrame ==
    [][/\ adders' = adders
       /\ msg'[1] = "inc" =>
             /\ trace'[1].caller = msg'[2]
             /\ trace'[1].callee = adders[msg'[2]]
             /\ {i \in 1..Len(trace') : trace'[i].caller = msg'[2]} = {1}
             /\ outcome' = "Ok"]_vars

C13_Witness ==
    /\ msg = <<"inc", "a3", 5>>
    /\ adders["a3"] = "a2"
    /\ delegator.acc_contract = "a1"
    /\ trace[1].caller = "a3"
    /\ trace[1].callee = "a2"
    /\ trace[1].result = "Err"
    /\ outcome = "Ok"

\* C14: the messages to one Delegator run one after another, each as one
\* step: whatever the interleaving of switch() and change(x) calls, each
\* change dispatches to the delegate selected by the `which` of the moment
\* of its dispatch, and no switch takes effect inside a change.
C14_SerializedEntryPoints ==
    /\ Len(trail) = Len(ops) + 1
    /\ \A i \in 1..Len(ops) :
          ops[i][1] = "change" =>
              /\ trail[i + 1] = trail[i]
              /\ sent[DispatchesUpTo(i)].callee =
                    (IF trail[i].which = "Adder"
                     THEN trail[i].add_contract ELSE trail[i].sub_contract)

C14_Witness ==
    /\ Len(ops) = 4
    /\ ops[1][1] = "change" /\ ops[2] = <<"switch">>
    /\ ops[3][1] = "change" /\ ops[4] = <<"switch">>
    /\ sent[1].callee = "a2" /\ sent[2].callee = "a3"
    /\ trail[3] = trail[4]
    /\ delegator.which = "Adder"

\* C15: every call issued by get, change and inc carries the default call
\* flags (none set) and the empty return shape.
C15_DefaultFlags ==
    /\ \A i \in 1..Len(trace) :
          trace[i].call_flags = {} /\ trace[i].returns = "()"
    /\ \A k \in 1..Len(sent) :
          sent[k].call_flags = {} /\ sent[k].returns = "()"

C15_Witness ==
    /\ msg[1] = "change"
    /\ Len(trace) = 2
    /\ Len(sent) = 2
    /\ sent[1].exec_input = <<192, 222, 202, 241>>
    /\ \A i \in 1..2 : trace[i].call_flags = {} /\ trace[i].returns = "()"
    /\ \A k \in 1..2 : sent[k].call_flags = {}

\* The selection after the first n messages, by the parity of the switches.
ParityWhich(n) == IF SwitchesBefore(n) % 2 = 0 THEN "Adder" ELSE "Subber"

\* C16 as stated: `which` is Adder exactly when the number of switch() calls
\* so far is even, and a change goes to add_contract exactly when an even
\* number of switch() calls precede it.
C16_Original ==
    /\ delegator.which = "Adder" <=> SwitchesBefore(Len(ops)) % 2 = 0
    /\ \A i \in 1..Len(ops) :
          ops[i][1] = "change" =>
              (sent[DispatchesUpTo(i)].callee = delegator.add_contract
                  <=> SwitchesBefore(i) % 2 = 0)

\* C16 as amended: after any sequence of get(), change(x) and switch()
\* calls, with any remote outcomes, `which` is Adder exactly when the number
\* of switch() calls so far is even; a change goes to add_contract when an
\* even number of switch() calls precede it and to sub_contract when an odd
\* number do, which is "exactly when" only if the two addresses differ.
C16_Parity ==
    /\ \A n \in 0..Len(ops) : trail[n + 1].which = ParityWhich(n)
    /\ delegator.which = ParityWhich(Len(ops))
    /\ \A i \in 1..Len(ops) :
          ops[i][1] = "change" =>
              LET target == sent[DispatchesUpTo(i)].callee
              IN  /\ SwitchesBefore(i) % 2 = 0 => target = delegator.add_contract
                  /\ SwitchesBefore(i) % 2 = 1 => target = delegator.sub_contract
                  /\ delegator.add_contract # delegator.sub_contract =>
                        (target = delegator.add_contract <=> SwitchesBefore(i) % 2 = 0)

C16_Witness ==
    /\ Len(ops) = 2
    /\ ops[1] = <<"switch">> /\ ops[2][1] = "change"
    /\ delegator.which = "Subber"
    /\ delegator.add_contract # delegator.sub_contract
    /\ sent[1].callee = delegator.sub_contract
    /\ trace[1].result = "Err"

\* C17: the selector change puts in its payload is the selector inc is
\* registered under and the selector the delegate sends on, so a change
\* dispatch that reaches a deployed Adder is not rejected for its selector
\* and routes to inc with an i32 argument, which the delegate passes on.
C17_SelectorCompatibility ==
    (msg[1] = "change" /\ adders[trace[1].callee] # NoAdder) =>
        /\ SelectorOf(trace[1].exec_input) = ADDER_INC_SELECTOR
        /\ Len(ArgsOf(trace[1].exec_input)) = 4
        /\ RoutesToInc(RequestOf(trace[1]), {})
        /\ trace[1].delivered =>
              /\ Len(trace) >= 2
              /\ SelectorOf(trace[2].exec_input) = SelectorOf(trace[1].exec_input)
              /\ ArgsOf(trace[2].exec_input) = ArgsOf(trace[1].exec_input)
              /\ LeI32(ArgsOf(trace[2].exec_input)) = msg[2]

C17_Witness ==
    /\ msg = <<"change", I32_MIN>>
    /\ adders[trace[1].callee] # NoAdder
    /\ trace[1].result = "Ok"
    /\ Len(trace) = 2
    /\ trace[1].exec_input = <<192, 222, 202, 254, 0, 0, 0, 128>>
    /\ trace[2].exec_input = <<192, 222, 202, 254, 0, 0, 0, 128>>

\* The Delegator's storage and the calls it has issued (target, method,
\* argument) after the first n messages of the history, computed from the
\* constructor arguments and the messages alone: no remote outcome enters.
RECURSIVE Replay(_)
Replay(n) ==
    IF n = 0
    THEN [state |-> [which |-> "Adder", acc_contract |-> ctor[1],
                     add_contract |-> ctor[2], sub_contract |-> ctor[3]],
          calls |-> <<>>]
    ELSE LET r == Replay(n - 1)
             st == r.state
             to == IF st.which = "Adder" THEN st.add_contract ELSE st.sub_contract
         IN  CASE ops[n][1] = "switch" ->
                    [state |-> [st EXCEPT !.which = Other(st.which)], calls |-> r.calls]
               [] ops[n][1] = "get" ->
                    [state |-> st,
                     calls |-> Append(r.calls, <<st.acc_contract, "get", 0>>)]
               [] ops[n][1] = "change" ->
                    [state |-> st,
                     calls |-> Append(r.calls, <<to, "inc", ops[n][2]>>)]

\* C18: the Delegator's state after every step and the (target, payload)
\* sequence it issues are determined by the constructor addresses and the
\* sequence of get/change/switch calls alone, so two runs that differ only
\* in remote outcomes agree on both.
C18_OutcomeIndependence ==
    /\ \A n \in 0..Len(ops) : trail[n + 1] = Replay(n).state
    /\ delegator = Replay(Len(ops)).state
    /\ Len(sent) = Len(Replay(Len(ops)).calls)
    /\ \A k \in 1..Len(sent) :
          LET c == Replay(Len(ops)).calls[k]
          IN  /\ sent[k].callee = c[1]
              /\ c[2] = "get" => sent[k].exec_input = <<192, 222, 202, 241>>
              /\ c[2] = "inc" =>
                    IsIncPayload(sent[k].exec_input, <<192, 222, 202, 254>>, c[3])

C18_Witness ==
    /\ Len(ops) = 4
    /\ ops[1][1] = "change" /\ ops[2] = <<"switch">> /\ ops[3][1] = "change" /\ ops[4] = <<"get">>
    /\ msg = <<"get">>
    /\ trace[1].result = "Err"
    /\ Len(sent) = 3
    /\ delegator = Replay(4).state

\* C19: when the three constructor addresses are pairwise distinct, the
\* Delegator never sends the increment selector to the accumulator address
\* nor the get selector to a delegate address; an increment reaches the
\* accumulator address only from a delegate.
C19_ChannelSeparation ==
    Cardinality({ctor[1], ctor[2], ctor[3]}) = 3 =>
        /\ \A k \in 1..Len(sent) :
              /\ SelectorOf(sent[k].exec_input) = <<192, 222, 202, 254>>
                    => sent[k].callee \in {ctor[2], ctor[3]}
              /\ SelectorOf(sent[k].exec_input) = <<192, 222, 202, 241>>
                    => sent[k].callee = ctor[1]
              /\ SelectorOf(sent[k].exec_input)
                    \in {<<192, 222, 202, 254>>, <<192, 222, 202, 241>>}
        /\ \A i \in 1..Len(trace) :
              (trace[i].callee = ctor[1]
                  /\ SelectorOf(trace[i].exec_input) = <<192, 222, 202, 254>>)
                  => trace[i].caller # "delegator"

C19_Witness ==
    /\ Cardinality({ctor[1], ctor[2], ctor[3]}) = 3
    /\ Len(ops) = 2 /\ ops[1] = <<"get">> /\ msg[1] = "change"
    /\ sent[1].callee = ctor[1]
    /\ sent[2].callee = ctor[2]
    /\ Len(trace) = 2
    /\ trace[2].callee = ctor[1]
    /\ trace[2].caller = ctor[2]

====
